---- MODULE Spec2Model ----
(***************************************************************************)
(* CSR construction of src/sparse_graph.h: the host routine build_graph    *)
(* and the six kernels it launches (histogram, prefix_sum,                 *)
(* single_block_prefix_sum, finish_prefix_sum, create_scratch, store).     *)
(*                                                                         *)
(* The host is one process (hpc).  Kernel launches are asynchronous: a     *)
(* launch appends the kernel to the default stream (queue) and the host    *)
(* goes on; the device runs the kernels of the stream one after the other. *)
(* Inside a kernel every thread is a process of its own (ph[t] counts the  *)
(* steps thread t has completed); threads of a block meet at               *)
(* __syncthreads(), threads of different blocks are not ordered at all.    *)
(*                                                                         *)
(* The group size (1024 in the source) and the shared-memory capacity of   *)
(* the cross-block scan (6144 in the source) are scaled down to            *)
(* threads_per_block and SmemCap so that multi-block inputs stay small;     *)
(* blockDim is the group size of the run explored.                         *)
(***************************************************************************)
EXTENDS Integers, Sequences, FiniteSets

\* ------------------------------------------------------------------ bounds
\* Scaled stand-in for threads_per_block = 1024 (blockDim.x, smem[1024]).
threads_per_block == 2
\* Scaled stand-in for the 6144 cells of smem / scratch in
\* single_block_prefix_sum.
SmemCap == 3
\* Largest vertex count n and edge count m of the inputs explored.
MaxN == 4
MaxM == 2
\* Largest vertex count explored where the call breaks a precondition
\* (offsets not zeroed, a source out of range, a failing allocation).
FaultMaxN == 2
\* Largest edge count explored where num_blocks exceeds SmemCap.
CapMaxM == 1
\* Largest edge count explored where the device is scheduled fairly.
FairMaxM == 1

\* Values an undefined read may produce (out of bounds, not allocated,
\* never written).
Junk == {0, 1}
\* Content of a cell that was never written since its allocation: below
\* every value the program stores.
Uninit == 0 - 1

VARIABLES
    n, m, edge_list,       \* the arguments of build_graph
    blockDim,              \* threads per block of every launch
    neighbours_start_at,   \* g->neighbours_start_at, n + 1 cells ("offsets")
    neighbours,            \* g->neighbours, m cells
    tmp_blk_sums,          \* scratch buffer of num_blocks cells ("group totals")
    tmp_prefix_sums,       \* scratch buffer of n cells ("counter array")
    blkState, ctrState,    \* "none" | "live" | "failed" | "freed"
    hpc,                   \* the host's position in build_graph
    queue,                 \* kernels launched and not yet started
    kern,                  \* the kernel the device is running, or "idle"
    ph,                    \* ph[t]: steps completed by thread t of kern
    val,                   \* val[t]: the thread's register (val / pos)
    smem, scratch,         \* __shared__ arrays of the running kernel
    mayFail,               \* environment: cudaMalloc may fail
    launched, started, finished,  \* history: kernels enqueued / begun / retired
    nwrites,               \* history: nwrites[p] = stores made to neighbours[p]
    fault                  \* history: kinds of undefined accesses made so far

vars == << n, m, edge_list, blockDim, neighbours_start_at, neighbours,
           tmp_blk_sums, tmp_prefix_sums, blkState, ctrState, hpc, queue, kern, ph, val,
           smem, scratch, mayFail, launched, started, finished, nwrites,
           fault >>

input == << n, m, edge_list, blockDim, mayFail >>
graph == << neighbours_start_at, neighbours, nwrites >>
buffers == << tmp_blk_sums, tmp_prefix_sums, blkState, ctrState >>
host == << hpc, queue, launched >>
threads == << ph, val, smem, scratch >>

Empty == [t \in {} |-> 0]

\* --------------------------------------------------------------- helpers
\* ceil(a / b), as ( a + threads_per_block - 1 ) / threads_per_block
CeilDiv(a, b) == (a + b - 1) \div b

\* build_graph: grid sizes
num_blocks == CeilDiv(n + 1, blockDim)
num_blocks_edges == CeilDiv(m, blockDim)

\* The strides of a doubling loop: for (stride = 1; stride < limit; stride <<= 1)
RECURSIVE StridesFrom(_, _)
StridesFrom(stride, limit) ==
    IF stride < limit THEN <<stride>> \o StridesFrom(2 * stride, limit)
    ELSE << >>
Strides(limit) == StridesFrom(1, limit)

\* blockIdx.x and threadIdx.x of global thread t
blockIdx(t) == t \div blockDim
threadIdx(t) == t % blockDim

Source(i) == edge_list[i + 1][1]
Destination(i) == edge_list[i + 1][2]

\* Mutant: no __syncthreads(), every thread runs at its own pace
BarrierPassed_missing(t) == TRUE

\* __syncthreads() between every two consecutive steps of a thread: thread t
\* may take its next step once every thread of its block has completed the
\* step before it.
BarrierPassed(t) ==
    \A u \in DOMAIN ph : blockIdx(u) = blockIdx(t) => ph[u] >= ph[t]

Advance(t) == ph' = [ph EXCEPT ![t] = @ + 1]

\* ------------------------------------------------------ memory accesses
BlkValid(i) == blkState = "live" /\ i \in DOMAIN tmp_blk_sums
CtrValid(i) == ctrState = "live" /\ i \in DOMAIN tmp_prefix_sums

\* The value a read of tmp_blk_sums[i] yields; j is what an undefined read
\* produces.
BlkLoad(i, j) ==
    IF BlkValid(i) /\ tmp_blk_sums[i] # Uninit THEN tmp_blk_sums[i] ELSE j
BlkLoadFault(i) ==
    IF BlkValid(i) /\ tmp_blk_sums[i] # Uninit THEN {} ELSE {"tmp_blk_sums"}

\* ------------------------------------------------------------ the device
\* Number of threads of a launch <<< blocks, threads_per_block >>>
GridThreads(k) ==
    IF k \in {"histogram", "store"} THEN num_blocks_edges * blockDim
    ELSE IF k = "single_block_prefix_sum" THEN blockDim
    ELSE num_blocks * blockDim

\* single_block_prefix_sum: n / 1024, plus one if n % 1024
max_number_items(len) ==
    (len \div blockDim) + (IF len % blockDim # 0 THEN 1 ELSE 0)

\* Mutant: a thread leaves the lane loop once its lane is out of range
\* (for (my_lane = th_id; my_lane < n; my_lane += 1024))
Iterations_in_range(t, len) ==
    Cardinality({d \in 0 .. len - 1 : d % blockDim = t})

\* Iterations thread t makes of the lane loop of single_block_prefix_sum,
\* each with two __syncthreads(): iteration < max_number_items
Iterations(t, len) == max_number_items(len)

\* Steps of one thread of prefix_sum: load, (read, write) per stride,
\* write-back, block sum.
ScanSteps == 2 * Len(Strides(blockDim)) + 3
\* Steps of one thread of single_block_prefix_sum over len cells: load,
\* per stride a copy and (read, write) per iteration, store.
RoundSteps(t, len) == 1 + 2 * Iterations(t, len)
ReduceSteps(t, len) == Len(Strides(len)) * RoundSteps(t, len) + 2

NumSteps(k, t) ==
    CASE k = "prefix_sum" -> ScanSteps
      [] k = "single_block_prefix_sum" -> ReduceSteps(t, num_blocks)
      [] k = "store" -> 2
      [] OTHER -> 1

\* Mutant: the stream does not order the kernels
StreamReady_unordered == TRUE

\* Kernels of the default stream run in launch order, one at a time
StreamReady == kern = "idle"

\* The stream hands the next kernel to the device once the one before it
\* has retired.
StartKernel ==
    /\ StreamReady
    /\ queue # << >>
    /\ kern' = Head(queue)
    /\ queue' = Tail(queue)
    /\ started' = started \cup {Head(queue)}
    /\ ph' = [t \in 0 .. GridThreads(Head(queue)) - 1 |-> 0]
    /\ val' = [t \in 0 .. GridThreads(Head(queue)) - 1 |-> 0]
    /\ smem' = CASE Head(queue) = "prefix_sum" ->
                      [t \in 0 .. GridThreads("prefix_sum") - 1 |-> 0]
                 [] Head(queue) = "single_block_prefix_sum" ->
                      [d \in 0 .. SmemCap - 1 |-> 0]
                 [] OTHER -> Empty
    /\ scratch' = IF Head(queue) = "single_block_prefix_sum"
                  THEN [d \in 0 .. SmemCap - 1 |-> 0] ELSE Empty
    /\ UNCHANGED << input, graph, buffers, hpc, launched, finished, fault >>

\* The kernel retires when its last thread has returned.
FinishKernel ==
    /\ kern # "idle"
    /\ \A t \in DOMAIN ph : ph[t] = NumSteps(kern, t)
    /\ kern' = "idle"
    /\ finished' = finished \cup {kern}
    /\ ph' = Empty /\ val' = Empty /\ smem' = Empty /\ scratch' = Empty
    /\ UNCHANGED << input, graph, buffers, host, started, fault >>

\* -------------------------------------------------------------- histogram
\* Mutant: the degree of x is counted in cell x instead of x + 1
histogram_cell_unshifted(x) == x

\* The cell a thread increments for source vertex x
histogram_cell(x) == x + 1

histogram(t) ==
    /\ kern = "histogram"
    /\ ph[t] = 0
    /\ Advance(t)
    /\ IF t < m /\ Source(t) < n
       THEN neighbours_start_at' =
                [neighbours_start_at EXCEPT ![histogram_cell(Source(t))] = @ + 1]
       ELSE UNCHANGED neighbours_start_at
    /\ UNCHANGED << input, neighbours, nwrites, buffers, host, kern, val, smem,
                    scratch, started, finished, fault >>

\* ------------------------------------------------------------- prefix_sum
\* Mutant: every thread below len stores its value as the block's total, so
\* the total left in block_sums depends on which thread writes last
StoresBlockSum_every_thread(t, len) == t < len

\* Mutant: the last thread of a block stores the total even when it is at or
\* beyond len, where its value sums cells loaded through global_th_idx % n
StoresBlockSum_padding_thread(t, len) ==
    (t + 1) % blockDim = 0 \/ t = len - 1

\* The thread that stores its block's total: the last of the block, or the
\* last one below len
StoresBlockSum(t, len) ==
    t < len /\ ((t + 1) % blockDim = 0 \/ t = len - 1)

\* smem[th_idx] of the thread's own block is kept at smem[t].
prefix_sum(t) ==
    LET len == n + 1
        c == ph[t]
        last == 2 * Len(Strides(blockDim))
        stride == Strides(blockDim)[((c - 1) \div 2) + 1]
        active == threadIdx(t) >= stride
    IN
    /\ kern = "prefix_sum"
    /\ ph[t] < ScanSteps
    /\ BarrierPassed(t)
    /\ Advance(t)
    /\ CASE c = 0 ->
              \* smem[th_idx] = g->neighbours_start_at[global_th_idx % n]
              /\ smem' = [smem EXCEPT ![t] = neighbours_start_at[t % len]]
              /\ UNCHANGED << val, neighbours_start_at, tmp_blk_sums, fault >>
         [] c >= 1 /\ c <= last /\ (c - 1) % 2 = 0 ->
              \* val = smem[th_idx - stride]
              /\ val' = [val EXCEPT ![t] = IF active THEN smem[t - stride] ELSE 0]
              /\ UNCHANGED << smem, neighbours_start_at, tmp_blk_sums, fault >>
         [] c >= 1 /\ c <= last /\ (c - 1) % 2 = 1 ->
              \* smem[th_idx] += val
              /\ smem' = IF active THEN [smem EXCEPT ![t] = @ + val[t]] ELSE smem
              /\ UNCHANGED << val, neighbours_start_at, tmp_blk_sums, fault >>
         [] c = last + 1 ->
              \* g->neighbours_start_at[global_th_idx] = smem[th_idx]
              /\ neighbours_start_at' =
                     IF t < len THEN [neighbours_start_at EXCEPT ![t] = smem[t]]
                     ELSE neighbours_start_at
              /\ UNCHANGED << val, smem, tmp_blk_sums, fault >>
         [] OTHER ->
              \* block_sums[blockIdx.x] = smem[th_idx]
              /\ IF ~StoresBlockSum(t, len)
                 THEN UNCHANGED << tmp_blk_sums, fault >>
                 ELSE IF BlkValid(blockIdx(t))
                 THEN /\ tmp_blk_sums' =
                            [tmp_blk_sums EXCEPT ![blockIdx(t)] = smem[t]]
                      /\ UNCHANGED fault
                 ELSE /\ fault' = fault \cup {"tmp_blk_sums"}
                      /\ UNCHANGED tmp_blk_sums
              /\ UNCHANGED << val, smem, neighbours_start_at >>
    /\ UNCHANGED << input, neighbours, nwrites, tmp_prefix_sums, blkState,
                    ctrState, host, kern, scratch, started, finished >>

\* ------------------------------------------------ single_block_prefix_sum
\* The cells thread t handles in a loop
\* for (data_idx = th_id; data_idx < n; data_idx += 1024)
Lanes(t, len) == {d \in 0 .. len - 1 : d % blockDim = t}

\* Mutant: the scan reads its operand from the buffer it updates
scan_operand_in_place == smem

\* The buffer a lane reads the cell stride positions behind from: the copy
\* made at the start of the stride step
scan_operand == scratch

\* A cell of smem[6144] / scratch[6144]
InSmem(d) == d \in 0 .. SmemCap - 1

\* One block of threads_per_block threads scans arr = tmp_blk_sums, of
\* len = num_blocks cells.  j is the value an undefined read produces.
single_block_prefix_sum(t) ==
    LET len == num_blocks
        c == ph[t]
        o == c - 1
        stride == Strides(len)[(o \div RoundSteps(t, len)) + 1]
        r == o % RoundSteps(t, len)
        my_lane == t + ((r - 1) \div 2) * blockDim
        active == my_lane < len /\ my_lane >= stride
        overflow == IF \E d \in Lanes(t, len) : ~InSmem(d) THEN {"smem"} ELSE {}
    IN
    /\ kern = "single_block_prefix_sum"
    /\ ph[t] < ReduceSteps(t, len)
    /\ BarrierPassed(t)
    /\ Advance(t)
    /\ \E j \in Junk :
       CASE c = 0 ->
              \* smem[data_idx] = scratch[data_idx] = arr[data_idx]
              /\ smem' = [d \in DOMAIN smem |->
                            IF d \in Lanes(t, len) THEN BlkLoad(d, j) ELSE smem[d]]
              /\ scratch' = [d \in DOMAIN scratch |->
                            IF d \in Lanes(t, len) THEN BlkLoad(d, j) ELSE scratch[d]]
              /\ fault' = fault \cup overflow
                            \cup UNION {BlkLoadFault(d) : d \in Lanes(t, len)}
              /\ UNCHANGED << val, tmp_blk_sums >>
         [] c = ReduceSteps(t, len) - 1 ->
              \* arr[data_idx] = smem[data_idx]
              /\ tmp_blk_sums' = [d \in DOMAIN tmp_blk_sums |->
                            IF blkState = "live" /\ d \in Lanes(t, len)
                            THEN (IF InSmem(d) THEN smem[d] ELSE j)
                            ELSE tmp_blk_sums[d]]
              /\ fault' = fault \cup overflow
                            \cup (IF blkState # "live" /\ Lanes(t, len) # {}
                                  THEN {"tmp_blk_sums"} ELSE {})
              /\ UNCHANGED << val, smem, scratch >>
         [] c > 0 /\ c < ReduceSteps(t, len) - 1 /\ r = 0 ->
              \* scratch[data_idx] = smem[data_idx]
              /\ scratch' = [d \in DOMAIN scratch |->
                            IF d \in Lanes(t, len) THEN smem[d] ELSE scratch[d]]
              /\ fault' = fault \cup overflow
              /\ UNCHANGED << val, smem, tmp_blk_sums >>
         [] c > 0 /\ c < ReduceSteps(t, len) - 1 /\ r > 0 /\ (r - 1) % 2 = 0 ->
              \* val = scratch[my_lane - stride]
              /\ val' = [val EXCEPT ![t] =
                            IF ~active THEN 0
                            ELSE IF InSmem(my_lane - stride)
                            THEN scan_operand[my_lane - stride] ELSE j]
              /\ fault' = fault \cup (IF active /\ ~InSmem(my_lane - stride)
                                      THEN {"smem"} ELSE {})
              /\ UNCHANGED << smem, scratch, tmp_blk_sums >>
         [] OTHER ->
              \* smem[my_lane] += val
              /\ smem' = IF active /\ InSmem(my_lane)
                         THEN [smem EXCEPT ![my_lane] = @ + val[t]] ELSE smem
              /\ fault' = fault \cup (IF active /\ ~InSmem(my_lane)
                                      THEN {"smem"} ELSE {})
              /\ UNCHANGED << val, scratch, tmp_blk_sums >>
    /\ UNCHANGED << input, graph, tmp_prefix_sums, blkState, ctrState, host,
                    kern, started, finished >>

\* ------------------------------------------------------ finish_prefix_sum
\* Mutant: block 0 is not exempted
finish_active_every_block(t, len) == t < len

\* Mutant: a block adds its own total instead of the one before it
finish_base_own(b) == b

\* th_idx < n && blockIdx.x > 0
finish_active(t, len) == t < len /\ blockIdx(t) > 0
\* The cell of block_sums a thread of block b adds
finish_base(b) == b - 1

finish_prefix_sum(t) ==
    /\ kern = "finish_prefix_sum"
    /\ ph[t] = 0
    /\ Advance(t)
    /\ IF finish_active(t, n + 1)
       THEN \E j \in Junk :
            /\ neighbours_start_at' =
                   [neighbours_start_at EXCEPT
                        ![t] = @ + BlkLoad(finish_base(blockIdx(t)), j)]
            /\ fault' = fault \cup BlkLoadFault(finish_base(blockIdx(t)))
       ELSE UNCHANGED << neighbours_start_at, fault >>
    /\ UNCHANGED << input, neighbours, nwrites, buffers, host, kern, val, smem,
                    scratch, started, finished >>

\* ---------------------------------------------------------- create_scratch
\* Mutant: the copy goes the wrong way,
\* g->neighbours_start_at[gid] = scratch[gid]
create_scratch_reversed(t) ==
    /\ kern = "create_scratch"
    /\ ph[t] = 0
    /\ Advance(t)
    /\ IF t < n /\ CtrValid(t)
       THEN neighbours_start_at' =
                [neighbours_start_at EXCEPT ![t] = tmp_prefix_sums[t]]
       ELSE UNCHANGED neighbours_start_at
    /\ UNCHANGED << input, neighbours, nwrites, buffers, host, kern, val, smem,
                    scratch, started, finished, fault >>

\* scratch[gid] = g->neighbours_start_at[gid], for gid < g->n
create_scratch(t) ==
    /\ kern = "create_scratch"
    /\ ph[t] = 0
    /\ Advance(t)
    /\ IF t >= n
       THEN UNCHANGED << tmp_prefix_sums, fault >>
       ELSE IF CtrValid(t)
       THEN /\ tmp_prefix_sums' =
                  [tmp_prefix_sums EXCEPT ![t] = neighbours_start_at[t]]
            /\ UNCHANGED fault
       ELSE /\ fault' = fault \cup {"tmp_prefix_sums"}
            /\ UNCHANGED tmp_prefix_sums
    /\ UNCHANGED << input, graph, tmp_blk_sums, blkState, ctrState, host, kern,
                    val, smem, scratch, started, finished >>

\* ------------------------------------------------------------------ store
\* Mutant: the incremented value is used as the position
atomicAdd_result_new(old) == old + 1

\* What atomicAdd(scratch + this_vertex, 1) returns when the cell holds old
atomicAdd_result(old) == old

store(t) ==
    /\ kern = "store"
    /\ ph[t] < 2
    /\ CASE t >= m ->
              \* not an edge: return
              /\ ph' = [ph EXCEPT ![t] = 2]
              /\ UNCHANGED << val, tmp_prefix_sums, neighbours, nwrites, fault >>
         [] t < m /\ ph[t] = 0 ->
              \* int pos = atomicAdd(scratch + this_vertex, 1)
              /\ Advance(t)
              /\ IF CtrValid(Source(t)) /\ tmp_prefix_sums[Source(t)] # Uninit
                 THEN /\ val' = [val EXCEPT ![t] =
                                   atomicAdd_result(tmp_prefix_sums[Source(t)])]
                      /\ tmp_prefix_sums' =
                             [tmp_prefix_sums EXCEPT ![Source(t)] = @ + 1]
                      /\ UNCHANGED fault
                 ELSE /\ \E j \in Junk : val' = [val EXCEPT ![t] = j]
                      /\ fault' = fault \cup {"tmp_prefix_sums"}
                      /\ UNCHANGED tmp_prefix_sums
              /\ UNCHANGED << neighbours, nwrites >>
         [] OTHER ->
              \* g->neighbours[pos] = other_vertex
              /\ Advance(t)
              /\ IF val[t] \in DOMAIN neighbours
                 THEN /\ neighbours' = [neighbours EXCEPT ![val[t]] = Destination(t)]
                      /\ nwrites' = [nwrites EXCEPT ![val[t]] = @ + 1]
                      /\ UNCHANGED fault
                 ELSE /\ fault' = fault \cup {"neighbours"}
                      /\ UNCHANGED << neighbours, nwrites >>
              /\ UNCHANGED << val, tmp_prefix_sums >>
    /\ UNCHANGED << input, neighbours_start_at, tmp_blk_sums, blkState, ctrState,
                    host, kern, smem, scratch, started, finished >>

\* ------------------------------------------------------------- build_graph
\* The device has nothing left to do
DeviceIdle == kern = "idle" /\ queue = << >>

\* cudaMalloc succeeds unless the environment lets it fail
AllocOutcomes == IF mayFail THEN BOOLEAN ELSE {TRUE}

\* kernel<<< blocks, threads_per_block >>>( ... ): asynchronous; a launch of
\* zero blocks is an invalid configuration and runs nothing.
Launch(at, k, next) ==
    /\ hpc = at
    /\ hpc' = next
    /\ IF GridThreads(k) > 0
       THEN queue' = Append(queue, k) /\ launched' = launched \cup {k}
       ELSE UNCHANGED << queue, launched >>
    /\ UNCHANGED << input, graph, buffers, kern, threads, started, finished,
                    fault >>

\* cudaDeviceSynchronize(): returns once the device is idle
Synchronize(at, next) ==
    /\ hpc = at
    /\ DeviceIdle
    /\ hpc' = next
    /\ UNCHANGED << input, graph, buffers, queue, launched, kern, threads,
                    started, finished, fault >>

\* Mutant: cudaFree returns without waiting for the device
cudaFree_ready_nowait == TRUE

\* cudaFree waits for the work already launched before it frees
cudaFree_ready == DeviceIdle

malloc_blk_sums ==
    /\ hpc = "malloc_blk_sums"
    /\ hpc' = "launch_histogram"
    /\ \E ok \in AllocOutcomes :
          /\ blkState' = IF ok THEN "live" ELSE "failed"
          /\ tmp_blk_sums' = IF ok THEN [b \in 0 .. num_blocks - 1 |-> Uninit]
                             ELSE Empty
    /\ UNCHANGED << input, graph, tmp_prefix_sums, ctrState, queue, launched,
                    kern, threads, started, finished, fault >>

launch_histogram == Launch("launch_histogram", "histogram", "sync_histogram")
sync_histogram == Synchronize("sync_histogram", "launch_prefix_sum")
launch_prefix_sum ==
    Launch("launch_prefix_sum", "prefix_sum", "launch_single_block")
launch_single_block ==
    Launch("launch_single_block", "single_block_prefix_sum", "launch_finish")
launch_finish == Launch("launch_finish", "finish_prefix_sum", "free_blk_sums")

free_blk_sums ==
    /\ hpc = "free_blk_sums"
    /\ cudaFree_ready
    /\ hpc' = "sync_prefix_sum"
    /\ blkState' = IF blkState = "live" THEN "freed" ELSE blkState
    /\ tmp_blk_sums' = Empty
    /\ UNCHANGED << input, graph, tmp_prefix_sums, ctrState, queue, launched,
                    kern, threads, started, finished, fault >>

sync_prefix_sum == Synchronize("sync_prefix_sum", "malloc_prefix_sums")

malloc_prefix_sums ==
    /\ hpc = "malloc_prefix_sums"
    /\ hpc' = "launch_create_scratch"
    /\ \E ok \in AllocOutcomes :
          /\ ctrState' = IF ok THEN "live" ELSE "failed"
          /\ tmp_prefix_sums' = IF ok THEN [v \in 0 .. n - 1 |-> Uninit]
                                ELSE Empty
    /\ UNCHANGED << input, graph, tmp_blk_sums, blkState, queue, launched,
                    kern, threads, started, finished, fault >>

launch_create_scratch ==
    Launch("launch_create_scratch", "create_scratch", "launch_store")
launch_store == Launch("launch_store", "store", "free_prefix_sums")

free_prefix_sums ==
    /\ hpc = "free_prefix_sums"
    /\ cudaFree_ready
    /\ hpc' = "returned"
    /\ ctrState' = IF ctrState = "live" THEN "freed" ELSE ctrState
    /\ tmp_prefix_sums' = Empty
    /\ UNCHANGED << input, graph, tmp_blk_sums, blkState, queue, launched,
                    kern, threads, started, finished, fault >>

build_graph ==
    \/ malloc_blk_sums
    \/ launch_histogram
    \/ sync_histogram
    \/ launch_prefix_sum
    \/ launch_single_block
    \/ launch_finish
    \/ free_blk_sums
    \/ sync_prefix_sum
    \/ malloc_prefix_sums
    \/ launch_create_scratch
    \/ launch_store
    \/ free_prefix_sums

Kernel ==
    \/ \E t \in DOMAIN ph : histogram(t)
    \/ \E t \in DOMAIN ph : prefix_sum(t)
    \/ \E t \in DOMAIN ph : single_block_prefix_sum(t)
    \/ \E t \in DOMAIN ph : finish_prefix_sum(t)
    \/ \E t \in DOMAIN ph : create_scratch(t)
    \/ \E t \in DOMAIN ph : store(t)

Next == build_graph \/ StartKernel \/ Kernel \/ FinishKernel

\* ------------------------------------------------------------------- Init
\* The destination of the i-th edge: the code only copies destinations, so
\* they serve as labels that tell the edges of one source apart.
DestinationOf(i, nn) == IF nn = 0 THEN 0 ELSE (i - 1) % nn

\* The state at the call of build_graph: dim is the group size, ns and ms
\* are the vertex and edge counts, extra the number of source values
\* explored at and beyond n, entry the values a cell of neighbours_start_at
\* may hold on entry, fail whether cudaMalloc may fail.
InitWith(dim, ns, ms, extra, entry, fail) ==
    /\ blockDim = dim
    /\ n \in ns
    /\ m \in ms
    /\ \E src \in [1 .. m -> 0 .. n - 1 + extra] :
          edge_list = [i \in 1 .. m |-> << src[i], DestinationOf(i, n) >>]
    /\ neighbours_start_at \in [0 .. n -> entry]
    /\ neighbours = [p \in 0 .. m - 1 |-> Uninit]
    /\ nwrites = [p \in 0 .. m - 1 |-> 0]
    /\ tmp_blk_sums = Empty /\ tmp_prefix_sums = Empty
    /\ blkState = "none" /\ ctrState = "none"
    /\ hpc = "malloc_blk_sums"
    /\ queue = << >> /\ kern = "idle"
    /\ ph = Empty /\ val = Empty /\ smem = Empty /\ scratch = Empty
    /\ mayFail = fail
    /\ launched = {} /\ started = {} /\ finished = {}
    /\ fault = {}

\* Valid calls: sources and destinations in [0, n), neighbours_start_at
\* zeroed by the caller, allocations succeed.
Init == InitWith(threads_per_block, 0 .. MaxN, 0 .. MaxM, 0, {0}, FALSE)
Spec == Init /\ [][Next]_vars

\* neighbours_start_at may hold anything on entry ("contents undefined").
InitDirty ==
    InitWith(threads_per_block, 0 .. FaultMaxN, 0 .. MaxM, 0, Junk, FALSE)
SpecDirty == InitDirty /\ [][Next]_vars

\* Edge sources range over [0, n], so some are out of range.
InitBadSource ==
    InitWith(threads_per_block, 0 .. FaultMaxN, 0 .. MaxM, 1, {0}, FALSE)
SpecBadSource == InitBadSource /\ [][Next]_vars

\* The smallest n for which num_blocks exceeds SmemCap.
InitOverCapacity ==
    InitWith(threads_per_block, {SmemCap * threads_per_block}, 0 .. CapMaxM,
             0, {0}, FALSE)
SpecOverCapacity == InitOverCapacity /\ [][Next]_vars

\* The device keeps running: a kernel of the stream that can start does
\* start, a thread that can take a step is scheduled, a kernel whose threads
\* have all returned retires.
Device == StartKernel \/ Kernel \/ FinishKernel
InitFair ==
    InitWith(threads_per_block, 0 .. MaxN, 0 .. FairMaxM, 0, {0}, FALSE)
SpecFair == InitFair /\ [][Next]_vars /\ WF_vars(Device)

\* cudaMalloc may fail.
InitAllocFail ==
    InitWith(threads_per_block, 0 .. FaultMaxN, 0 .. MaxM, 0, {0}, TRUE)
SpecAllocFail == InitAllocFail /\ [][Next]_vars

\* Groups of twice the size, n equal to the group size: the block scan has
\* two stride steps, and the second group has one cell of
\* neighbours_start_at and pads the rest of its threads, which load cells of
\* the first group through global_th_idx % n.
InitWide ==
    InitWith(2 * threads_per_block, {2 * threads_per_block}, 1 .. MaxM,
             0, {0}, FALSE)
SpecWide == InitWide /\ [][Next]_vars

\* One group of twice the size, n + 1 equal to the group size: every thread
\* of the block scan has a cell of its own.
InitBlock ==
    InitWith(2 * threads_per_block, {2 * threads_per_block - 1}, 1 .. MaxM,
             0, {0}, FALSE)
SpecBlock == InitBlock /\ [][Next]_vars

\* ------------------------------------------------------------- properties
Returned == hpc = "returned"

\* Number of input edges with source v, and with source below v
Degree(v) == Cardinality({i \in 1 .. m : edge_list[i][1] = v})
EdgesBelow(v) == Cardinality({i \in 1 .. m : edge_list[i][1] < v})

\* The positions of neighbours that belong to vertex v
Segment(v) ==
    {p \in DOMAIN neighbours :
        neighbours_start_at[v] <= p /\ p < neighbours_start_at[v + 1]}

\* The segment of v holds, as a multiset, the destinations of v's edges
SegmentIsAdjacency(v) ==
    /\ neighbours_start_at[v + 1] - neighbours_start_at[v] = Degree(v)
    /\ Cardinality(Segment(v)) = Degree(v)
    /\ \A d \in 0 .. n - 1 :
          Cardinality({p \in Segment(v) : neighbours[p] = d})
              = Cardinality({i \in 1 .. m : edge_list[i] = << v, d >>})

\* C1: when build_graph has returned (valid edge list, offsets zero on
\* entry), the segment neighbours[offsets[v] .. offsets[v+1]) of every vertex
\* v is, as a multiset, the destinations of the input edges with source v.
C1_SegmentsAreAdjacency ==
    Returned => \A v \in 0 .. n - 1 : SegmentIsAdjacency(v)

C1_Witness ==
    /\ Returned
    /\ n >= 2
    /\ \E v \in 0 .. n - 1 : Degree(v) >= 2
    /\ \A v \in 0 .. n - 1 : SegmentIsAdjacency(v)

\* C2: when build_graph has returned (valid edge list, offsets zero on
\* entry), offsets[0] = 0, offsets[n] = m and offsets is non-decreasing.
C2_OffsetsShape ==
    Returned =>
        /\ neighbours_start_at[0] = 0
        /\ neighbours_start_at[n] = m
        /\ \A v \in 0 .. n - 1 :
              neighbours_start_at[v] <= neighbours_start_at[v + 1]

C2_Witness ==
    /\ Returned
    /\ m > 0
    /\ num_blocks > 1
    /\ neighbours_start_at[n] = m

\* C3: whatever neighbours_start_at and neighbours hold on entry, build_graph
\* returns with the offsets and per-vertex multisets that the edge list alone
\* determines (those of a run that starts from zeroed offsets).
C3_EntryContentsIrrelevant ==
    Returned =>
        /\ \A v \in 0 .. n : neighbours_start_at[v] = EdgesBelow(v)
        /\ \A v \in 0 .. n - 1 :
              \A d \in 0 .. n - 1 :
                 Cardinality({p \in Segment(v) : neighbours[p] = d})
                     = Cardinality({i \in 1 .. m : edge_list[i] = << v, d >>})

\* C4: determinism: every interleaving ends with the offsets array that the
\* edge list determines, and with every neighbours position written once and
\* holding a destination of the vertex whose segment it lies in; only the
\* order inside a segment is left to the schedule.
C4_Deterministic ==
    Returned =>
        /\ neighbours_start_at = [v \in 0 .. n |-> EdgesBelow(v)]
        /\ \A p \in DOMAIN neighbours : nwrites[p] = 1
        /\ \A v \in 0 .. n - 1 :
              \A d \in 0 .. n - 1 :
                 Cardinality({p \in 0 .. m - 1 :
                                 /\ EdgesBelow(v) <= p
                                 /\ p < EdgesBelow(v + 1)
                                 /\ neighbours[p] = d})
                     = Cardinality({i \in 1 .. m : edge_list[i] = << v, d >>})

\* Two edges of one source stored in the reverse of their input order
C4_Witness ==
    /\ Returned
    /\ m >= 2
    /\ Source(0) = Source(1)
    /\ Destination(0) # Destination(1)
    /\ neighbours[neighbours_start_at[Source(0)]] = Destination(1)
    /\ neighbours[neighbours_start_at[Source(0)] + 1] = Destination(0)

\* C5: when n + 1 spans more than one block, once finish_prefix_sum has
\* retired offsets[v] is the number of input edges with source below v, for
\* every v in [0, n].
C5_GlobalPrefixSum ==
    (num_blocks > 1 /\ "finish_prefix_sum" \in finished) =>
        \A v \in 0 .. n : neighbours_start_at[v] = EdgesBelow(v)

\* Three blocks, the last one partly filled, and edges in every block
C5_Witness ==
    /\ "finish_prefix_sum" \in finished
    /\ num_blocks >= 3
    /\ (n + 1) % blockDim # 0
    /\ EdgesBelow(blockDim) > 0
    /\ EdgesBelow(2 * blockDim) > EdgesBelow(blockDim)
    /\ \A v \in 0 .. n : neighbours_start_at[v] = EdgesBelow(v)

\* C6: when num_blocks exceeds the capacity of the cross-block scan, the
\* input is rejected: single_block_prefix_sum never runs on it and no cell
\* of smem or scratch at or beyond the capacity is read or written.
C6_OverCapacityRejected ==
    num_blocks > SmemCap =>
        /\ "single_block_prefix_sum" \notin started
        /\ "smem" \notin fault

\* C7: an edge whose source is >= n is dropped: no stage accesses the counter
\* array or neighbours out of bounds because of it, and its thread of store
\* claims no slot.
C7_BadSourceDropped ==
    /\ "tmp_prefix_sums" \notin fault
    /\ "neighbours" \notin fault
    /\ kern = "store" =>
          \A t \in DOMAIN ph : (t < m /\ Source(t) >= n) => ph[t] # 1

C9_Blocking ==
    Returned =>
        /\ kern = "idle"
        /\ queue = << >>
        /\ launched = finished
        /\ {"prefix_sum", "single_block_prefix_sum", "finish_prefix_sum",
            "create_scratch"} \subseteq finished
        /\ m > 0 => {"histogram", "store"} \subseteq finished

C9_Witness ==
    /\ Returned
    /\ "store" \in finished
    /\ \A p \in DOMAIN neighbours : nwrites[p] = 1

\* C10: after a failed allocation of tmp_blk_sums no kernel runs, and after
\* a failed allocation of tmp_prefix_sums neither create_scratch nor store
\* runs.
C10_AllocFailureAborts ==
    /\ blkState = "failed" => started = {}
    /\ ctrState = "failed" => started \cap {"create_scratch", "store"} = {}

\* The kernels of build_graph in the order of their launches
StageOrder ==
    << "histogram", "prefix_sum", "single_block_prefix_sum",
       "finish_prefix_sum", "create_scratch", "store" >>

\* C11: no thread of a kernel starts before every thread of each kernel
\* launched before it has run to its end, for all six kernels, whether the
\* host synchronised between the two launches or not.
C11_StageOrdering ==
    \A i, j \in DOMAIN StageOrder :
        (i < j /\ StageOrder[j] \in started /\ GridThreads(StageOrder[i]) > 0)
            => StageOrder[i] \in finished

C11_Witness ==
    /\ kern = "finish_prefix_sum"
    /\ hpc = "free_blk_sums"
    /\ num_blocks >= 2
    /\ \E t \in DOMAIN ph : ph[t] = 1
    /\ {"prefix_sum", "single_block_prefix_sum"} \subseteq finished

\* C12: tmp_blk_sums is freed only after prefix_sum, single_block_prefix_sum
\* and finish_prefix_sum have retired, tmp_prefix_sums only after
\* create_scratch and store have retired; no thread accesses either buffer
\* while it is not allocated, and both are freed when build_graph returns.
C12_ScratchLifetime ==
    /\ blkState = "freed" =>
          {"prefix_sum", "single_block_prefix_sum", "finish_prefix_sum"}
              \subseteq finished
    /\ ctrState = "freed" =>
          /\ "create_scratch" \in finished
          /\ m > 0 => "store" \in finished
    /\ "tmp_blk_sums" \notin fault
    /\ "tmp_prefix_sums" \notin fault
    /\ Returned => (blkState = "freed" /\ ctrState = "freed")

C12_Witness ==
    /\ Returned
    /\ blkState = "freed"
    /\ ctrState = "freed"
    /\ num_blocks >= 2
    /\ m > 0

\* C13: from neighbours_start_at all zero, once histogram has retired (and
\* before the scan starts) neighbours_start_at[v + 1] is the number of edges
\* with source v for every v < n, and neighbours_start_at[0] is 0, in every
\* order of the atomic increments.
C13_HistogramPostcondition ==
    ("histogram" \in finished /\ "prefix_sum" \notin started) =>
        /\ neighbours_start_at[0] = 0
        /\ \A v \in 0 .. n - 1 : neighbours_start_at[v + 1] = Degree(v)

C13_Witness ==
    /\ "histogram" \in finished
    /\ "prefix_sum" \notin started
    /\ \E v \in 0 .. n - 1 : Degree(v) >= 2

\* prefix_sum: stride steps thread t has completed (read and write both)
StridesDone(t) ==
    IF ph[t] - 1 >= 2 * Len(Strides(blockDim)) THEN Len(Strides(blockDim))
    ELSE IF ph[t] = 0 THEN 0 ELSE (ph[t] - 1) \div 2

\* The first cell of the window that smem[th_idx] of thread t sums after k
\* stride steps: 2^k cells ending at t, cut off at the start of the block
WindowStart(t, k) ==
    LET width == IF k < Len(Strides(blockDim))
                 THEN Strides(blockDim)[k + 1] ELSE blockDim
        first == blockIdx(t) * blockDim
    IN IF t - width + 1 > first THEN t - width + 1 ELSE first

\* Sum over cells lo .. hi of the values histogram leaves in
\* neighbours_start_at (cell v + 1 holds the degree of v, cell 0 holds 0)
HistogramSum(lo, hi) == EdgesBelow(hi) - EdgesBelow(lo - 1)

\* C14: in prefix_sum no thread of a block writes its smem cell for a stride
\* step before every thread of the block has read for that step, and none
\* reads for the next step before every write of this one is done (no thread
\* is more than one step ahead of another of its block); so after k stride
\* steps the cell of a thread below n + 1 holds the sum of the 2^k loaded
\* values ending at it, in every interleaving.
C14_NoScanRace ==
    kern = "prefix_sum" =>
        /\ \A t, u \in DOMAIN ph :
              blockIdx(t) = blockIdx(u) => ph[u] <= ph[t] + 1
        /\ \A t \in DOMAIN ph :
              (t < n + 1 /\ ph[t] >= 1) =>
                  smem[t] = HistogramSum(WindowStart(t, StridesDone(t)), t)

C14_Witness ==
    /\ kern = "prefix_sum"
    /\ \E t, u \in DOMAIN ph :
          /\ blockIdx(t) = blockIdx(u)
          /\ u < n + 1
          /\ ph[t] = 3
          /\ ph[u] = 4
          /\ val[u] > 0
          /\ smem[u] > 0

\* The total of block b: the sum of the cells of neighbours_start_at below
\* n + 1 that belong to it, as histogram left them
BlockTotal(b) ==
    LET next == (b + 1) * blockDim
        last == IF next < n + 1 THEN next - 1 ELSE n
    IN HistogramSum(b * blockDim, last)

RECURSIVE SumOfTotals(_)
SumOfTotals(i) == IF i < 0 THEN 0 ELSE BlockTotal(i) + SumOfTotals(i - 1)

\* C15: single_block_prefix_sum turns arr = tmp_blk_sums into its inclusive
\* prefix sum: arr holds the blocks' totals when prefix_sum has retired, and
\* arr[i] is the sum of the totals of blocks 0 .. i when
\* single_block_prefix_sum has retired, for every length up to the capacity,
\* lengths above the number of threads included.
C15_ReduceScan ==
    /\ ("prefix_sum" \in finished /\ "single_block_prefix_sum" \notin started)
          => \A b \in 0 .. num_blocks - 1 : tmp_blk_sums[b] = BlockTotal(b)
    /\ ("single_block_prefix_sum" \in finished /\ blkState = "live")
          => \A i \in 0 .. num_blocks - 1 : tmp_blk_sums[i] = SumOfTotals(i)

C15_Witness ==
    /\ "single_block_prefix_sum" \in finished
    /\ blkState = "live"
    /\ num_blocks > blockDim
    /\ num_blocks = SmemCap
    /\ BlockTotal(0) > 0
    /\ BlockTotal(1) > 0
    /\ tmp_blk_sums[2] = BlockTotal(0) + BlockTotal(1) + BlockTotal(2)

\* While single_block_prefix_sum runs: every thread has the same number of
\* steps, hence of barriers, and as long as a thread has steps left some
\* thread is past its barrier and can take its next step
SameBarrierRounds ==
    kern = "single_block_prefix_sum" =>
        /\ \A t, u \in DOMAIN ph :
              ReduceSteps(t, num_blocks) = ReduceSteps(u, num_blocks)
        /\ \/ \A t \in DOMAIN ph : ph[t] = ReduceSteps(t, num_blocks)
           \/ \E t \in DOMAIN ph :
                 ph[t] < ReduceSteps(t, num_blocks) /\ BarrierPassed(t)

\* C16: in single_block_prefix_sum every thread passes the same number of
\* __syncthreads(), whether its lanes are in range or not, so no thread
\* waits at a barrier that another never reaches, and the kernel, once
\* started, always retires.
C16_LockStep ==
    /\ []SameBarrierRounds
    /\ (kern = "single_block_prefix_sum")
           ~> ("single_block_prefix_sum" \in finished)

C16_Witness ==
    /\ kern = "single_block_prefix_sum"
    /\ \E t, u \in DOMAIN ph :
          /\ Cardinality(Lanes(t, num_blocks)) < Iterations(t, num_blocks)
          /\ Cardinality(Lanes(u, num_blocks)) = Iterations(u, num_blocks)
          /\ ph[t] = ReduceSteps(t, num_blocks)
          /\ ph[u] = ReduceSteps(u, num_blocks) - 1

\* C17: a step of a thread p of finish_prefix_sum adds tmp_blk_sums of the
\* block before p's to neighbours_start_at[p] when p < n + 1 and p is not in
\* block 0, and changes no other cell; a thread of block 0 or at p >= n + 1
\* changes nothing; tmp_blk_sums is never changed; each thread takes exactly
\* one such step.
C17_FixUpFrame ==
    [][ (kern = "finish_prefix_sum" /\ kern' = "finish_prefix_sum") =>
            /\ tmp_blk_sums' = tmp_blk_sums
            /\ DOMAIN neighbours_start_at' = DOMAIN neighbours_start_at
            /\ \A p \in DOMAIN ph :
                  /\ ph'[p] \in {ph[p], 1}
                  /\ p \in DOMAIN neighbours_start_at =>
                        neighbours_start_at'[p] =
                            IF ph'[p] # ph[p] /\ blockIdx(p) > 0
                            THEN neighbours_start_at[p]
                                     + tmp_blk_sums[blockIdx(p) - 1]
                            ELSE neighbours_start_at[p]
      ]_vars

C17_Witness ==
    /\ kern = "finish_prefix_sum"
    /\ num_blocks >= 3
    /\ (n + 1) % blockDim # 0
    /\ \A p \in DOMAIN ph : ph[p] = 1
    /\ tmp_blk_sums[0] > 0
    /\ tmp_blk_sums[1] > tmp_blk_sums[0]
    /\ neighbours_start_at[blockDim] > tmp_blk_sums[0]
    /\ neighbours_start_at[n] = tmp_blk_sums[1]

\* C18: in store, the position a thread obtains from atomicAdd lies in the
\* segment of its edge's source, no two threads obtain the same position,
\* no position of neighbours is written twice or out of bounds, and when
\* store has retired each of the m positions has been written exactly once.
C18_CollisionFree ==
    /\ kern = "store" =>
          \A t \in DOMAIN ph : (t < m /\ ph[t] >= 1) =>
              /\ neighbours_start_at[Source(t)] <= val[t]
              /\ val[t] < neighbours_start_at[Source(t) + 1]
              /\ \A u \in DOMAIN ph :
                    (u < m /\ u # t /\ ph[u] >= 1) => val[u] # val[t]
    /\ \A p \in DOMAIN neighbours : nwrites[p] <= 1
    /\ "neighbours" \notin fault
    /\ "store" \in finished => \A p \in DOMAIN neighbours : nwrites[p] = 1

C18_Witness ==
    /\ kern = "store"
    /\ \E t, u \in DOMAIN ph :
          /\ t < u /\ u < m
          /\ Source(t) = Source(u)
          /\ ph[t] = 2 /\ ph[u] = 2
          /\ val[t] = val[u] + 1
          /\ nwrites[val[t]] = 1 /\ nwrites[val[u]] = 1

\* C19: no step of create_scratch or store, and no step at all once
\* finish_prefix_sum has retired, changes neighbours_start_at; no step of
\* build_graph or of any kernel changes the edge list.
C19_Frame ==
    [][ /\ kern \in {"create_scratch", "store"} =>
               neighbours_start_at' = neighbours_start_at
        /\ "finish_prefix_sum" \in finished =>
               neighbours_start_at' = neighbours_start_at
        /\ edge_list' = edge_list
      ]_vars

C19_Witness ==
    /\ kern = "store"
    /\ \A t \in DOMAIN ph : ph[t] = 2
    /\ \E t \in DOMAIN ph :
          /\ t < m
          /\ tmp_prefix_sums[Source(t)] = neighbours_start_at[Source(t)] + 2
          /\ neighbours[neighbours_start_at[Source(t)]] # Uninit

\* C20: what the threads of prefix_sum at or beyond n + 1 load through
\* global_th_idx % n reaches no output: when prefix_sum has retired, every
\* cell of neighbours_start_at holds the sum of the values histogram left in
\* its own block up to it, and every cell of tmp_blk_sums the total of its
\* block's cells below n + 1, whether such a thread loaded its cell before
\* or after the cell's owner in another block wrote it back.
C20_WraparoundHarmless ==
    ("prefix_sum" \in finished /\ "single_block_prefix_sum" \notin started) =>
        /\ \A p \in 0 .. n :
              neighbours_start_at[p] = HistogramSum(blockIdx(p) * blockDim, p)
        /\ \A b \in 0 .. num_blocks - 1 : tmp_blk_sums[b] = BlockTotal(b)

\* A thread beyond n + 1 has loaded a cell that its owner had already
\* written back with a value other than the one histogram left
C20_Witness ==
    /\ kern = "prefix_sum"
    /\ \E t \in DOMAIN ph :
          /\ t >= n + 1
          /\ ph[t] = 1
          /\ blockIdx(t % (n + 1)) # blockIdx(t)
          /\ smem[t] # HistogramSum(t % (n + 1), t % (n + 1))
          /\ smem[t] = neighbours_start_at[t % (n + 1)]

====
